---------------------------- MODULE Spec2Model ----------------------------
(***************************************************************************)
(* A model of script.module.simplecache (lib/simplecache.py): the          *)
(* SimpleCache engine with its two tiers (the host's property bag and a    *)
(* sqlite store), its lazy connection, the statement retry loop, the       *)
(* cleanup sweep and close().  Threads call the public methods on shared   *)
(* instances; every step below is one stretch of a method between two      *)
(* accesses to shared state.                                               *)
(***************************************************************************)
EXTENDS Integers, Sequences, FiniteSets, TLC

(***************************************************************************)
(* Bounds of the model.                                                    *)
(***************************************************************************)
\* operations (method calls) started in one behaviour
MaxOps == 3
\* operations started in one behaviour of the sequential specification
MaxSeqOps == 2
\* the clock stops after this many ticks
MaxClock == 2
\* statement failures ('database is locked', disk full, ...) the environment
\* produces in one behaviour
MaxFaults == 1
\* store files ever created at the store's path
MaxFiles == 3
\* connections ever assigned to an instance
MaxConns == 3

\* clock ticks in one second: datetime.now() is finer than _get_timestamp
TicksPerSec == 2
\* _auto_clean_interval (timedelta(hours=4)), scaled to clock ticks
AutoCleanInterval == 1
\* the retry bound of _execute_sql
MaxRetries == 10

Threads == {1, 2}
\* no thread
NoThread == {}
Instances == {"a", "b", "c"}
\* cache ids callers use
Keys == {"k1", "k2"}
\* the property names the engine itself uses in the property bag
LastExecutedKey == "simplecache.clean.lastexecuted"
CleanBusyKey == "simplecachecleanbusy"
\* the name _do_cleanup registers in _busy_tasks (__name__)
ModuleName == "simplecache"

(***************************************************************************)
(* Python values and their two encodings.  A value is a type and its       *)
(* items; repr and json.dumps print it, eval and json.loads read a text    *)
(* back (or raise: the empty set).                                         *)
(***************************************************************************)
PyInt(n) == [type |-> "int", items |-> <<n>>]
PyTuple(n) == [type |-> "tuple", items |-> <<n>>]
PyList(n) == [type |-> "list", items |-> <<n>>]
PyNone == [type |-> "NoneType", items |-> <<>>]
PyObject == [type |-> "object", items |-> <<>>]

\* what eval can build from a text: literals, not arbitrary objects
PyLiterals == {PyInt(1), PyInt(2), PyTuple(1), PyList(1), PyNone}
\* what json.loads can build from a text
JsonValues == {PyInt(1), PyInt(2), PyList(1), PyNone}

\* repr(data)
Repr(v) ==
    CASE v.type = "int" -> ToString(v.items[1])
      [] v.type = "tuple" -> "(" \o ToString(v.items[1]) \o ",)"
      [] v.type = "list" -> "[" \o ToString(v.items[1]) \o "]"
      [] v.type = "NoneType" -> "None"
      [] OTHER -> "<object object at 0x7f>"

\* json.dumps raises TypeError on anything but the JSON types
JsonSerializable(v) == v.type \in {"int", "tuple", "list", "NoneType"}

\* json.dumps(data): a tuple is written as an array
JsonDumps(v) ==
    CASE v.type = "int" -> ToString(v.items[1])
      [] v.type \in {"tuple", "list"} -> "[" \o ToString(v.items[1]) \o "]"
      [] OTHER -> "null"

\* eval(text): the values the text denotes (none: eval raises)
Eval(text) == {v \in PyLiterals : Repr(v) = text}

\* json.loads(text): the values the text denotes (none: json.loads raises)
JsonLoads(text) == {v \in JsonValues : JsonDumps(v) = text}

\* the decoder a call uses: json or eval
Decode(text, as_json) == IF as_json THEN JsonLoads(text) ELSE Eval(text)

\* the encoder a call uses
Encode(v, as_json) == IF as_json THEN JsonDumps(v) ELSE Repr(v)

(***************************************************************************)
(* _get_timestamp and _get_checksum.  A checksum string is the sequence of *)
(* its character codes.                                                    *)
(***************************************************************************)
\* int(time.mktime(date_time.timetuple())): whole seconds
GetTimestamp(date_time) == date_time \div TicksPerSec

RECURSIVE SumOrd(_)
\* reduce(lambda x, y: x + y, map(ord, stringinput))
SumOrd(s) == IF s = <<>> THEN 0 ELSE Head(s) + SumOrd(Tail(s))

\* ord("-")
Dash == 45

\* "%s-%s" % (global_checksum, stringinput) when a global checksum is set
GetChecksum(global_checksum, stringinput) ==
    IF stringinput = <<>> /\ global_checksum = <<>>
    THEN 0
    ELSE IF global_checksum # <<>>
         THEN SumOrd(global_checksum \o <<Dash>> \o stringinput)
         ELSE SumOrd(stringinput)


(***************************************************************************)
(* State.                                                                  *)
(***************************************************************************)
VARIABLES
    now,          \* datetime.datetime.now(), in clock ticks
    aborted,      \* xbmc.Monitor().abortRequested(): the host's abort signal
    win,          \* the property bag of Window(10000): name -> text
    files,        \* every store file ever created: its table and rows
    curFile,      \* the file now at the store's path (0: none)
    obj,          \* the SimpleCache instances
    busy_tasks,   \* SimpleCache._busy_tasks: one list, of the class
    closedConns,  \* connections on which close() was called
    nconn,        \* connections assigned so far
    th,           \* the threads: where each is in its call, and its locals
    ops,          \* calls started
    faults,       \* statement failures produced
    hist,         \* per key: the set() calls begun and returned, and the last
                  \* one returned
    ret,          \* the call that has just returned or raised
    rt,           \* the set() that has just returned, while a get() follows it
    dom           \* the inputs the callers draw from

vars == <<now, aborted, win, files, curFile, obj, busy_tasks, closedConns,
          nconn, th, ops, faults, hist, ret, rt, dom>>

\* _database = None
NoConn == [id |-> 0, file |-> 0]

\* no entry read from a tier
NoEntry == [expires |-> -1, data |-> "", checksum |-> -1]

\* the result of a statement: a cursor (ok) with its rows, or None
NoCursor == [ok |-> FALSE, rows |-> {}]

\* no _do_cleanup of the instance has returned yet
NoSwept == [at |-> -1, ops |-> 0, ok |-> FALSE, deleted |-> 0]

\* the class attributes of SimpleCache, before __init__ (scan: the time at
\* which the instance's sweep passed the in-progress check, -1 before; swept:
\* the last _do_cleanup of the instance that returned, with the time it read
\* at line 145, or the time of the call when it returned before)
NoObject ==
    [state |-> "none", attrs |-> FALSE, exit |-> FALSE, database |-> NoConn,
     enable_mem_cache |-> TRUE, data_is_json |-> FALSE,
     global_checksum |-> <<>>, closed |-> FALSE, scan |-> -1,
     swept |-> NoSwept]

IdleThread ==
    [pc |-> "idle", op |-> "none", self |-> "a", endpoint |-> "",
     data |-> PyNone, cs_in |-> <<>>, checksum |-> 0, ts |-> 0,
     json_data |-> FALSE, text |-> "", retries |-> 0, attempts |-> 0,
     lastfail |-> "", conn |-> NoConn, query |-> "", retpc |-> "",
     cursor |-> NoCursor, todo |-> {}, now0 |-> 0,
     memRead |-> NoEntry, dbRead |-> NoEntry, afterClose |-> FALSE,
     wroteMem |-> FALSE, ran |-> FALSE, dbw |-> "none", finalizer |-> FALSE,
     settled |-> FALSE, nsets |-> 0, first |-> NoSwept, deleted |-> 0,
     rows0 |-> <<>>]

NoRT ==
    [live |-> FALSE, getter |-> NoThread, self |-> "a", endpoint |-> "",
     cs_in |-> <<>>, checksum |-> 0, json_data |-> FALSE, data |-> PyNone,
     expires |-> 0, ran |-> FALSE, wroteMem |-> FALSE, dbw |-> "none"]

\* no set() on a key yet
NoSet ==
    [begun |-> 0, done |-> 0, data |-> PyNone, cs_in |-> <<>>,
     json_data |-> FALSE, expires |-> 0, stored |-> FALSE]

NoRet ==
    [op |-> "none", self |-> "a", endpoint |-> "", cs_in |-> <<>>,
     checksum |-> 0, json_data |-> FALSE, ts |-> 0, data |-> PyNone,
     result |-> PyNone, raised |-> FALSE, where |-> "",
     memRead |-> NoEntry, dbRead |-> NoEntry, dbw |-> "none",
     afterClose |-> FALSE, wroteMem |-> FALSE, ran |-> FALSE,
     attempts |-> 0, fresh |-> FALSE, settled |-> FALSE, first |-> NoSwept,
     deleted |-> 0, rows0 |-> <<>>, after |-> NoRT]

\* the texts kept in the property bag
CacheText(fmt, expires, data, checksum) ==
    [kind |-> "cache", fmt |-> fmt, expires |-> expires, data |-> data,
     checksum |-> checksum]
DateText(t) ==
    [kind |-> "datetime", fmt |-> "", expires |-> t, data |-> "",
     checksum |-> 0]
BusyText ==
    [kind |-> "busy", fmt |-> "", expires |-> 0, data |-> "", checksum |-> 0]

\* the inputs of the callers of specification Spec
CoreDom ==
    [threads |-> Threads,
     instances |-> {"a"},
     values |-> {PyInt(1)},
     checksums |-> {<<>>},
     json |-> {FALSE},
     ttls |-> {2},
     mem |-> BOOLEAN,
     data_is_json |-> {FALSE},
     globals |-> {<<>>},
     hasFile |-> {FALSE},
     getkeys |-> Keys,
     setkeys |-> Keys,
     maxops |-> MaxOps,
     maxfaults |-> 0]

\* the store file before the process starts: none, or one with its table
InitFiles(hasFile) ==
    IF hasFile THEN <<[table |-> TRUE, rows |-> <<>>]>> ELSE <<>>

\* an instance whose __init__ has returned, no sweep being due
ReadyObject(mem, dij, g) ==
    [state |-> "ready", attrs |-> TRUE, exit |-> FALSE, database |-> NoConn,
     enable_mem_cache |-> mem, data_is_json |-> dij,
     global_checksum |-> g, closed |-> FALSE, scan |-> -1,
     swept |-> NoSwept]

\* the process with the instances of made constructed at time 0
InitWith(d, made) ==
    /\ now = 0
    /\ aborted = FALSE
    /\ win = IF made = {} THEN <<>>
             ELSE [n \in {LastExecutedKey} |-> DateText(0)]
    /\ \E hasFile \in d.hasFile :
          /\ files = InitFiles(hasFile)
          /\ curFile = Len(files)
    /\ \E mem \in d.mem, dij \in d.data_is_json, g \in d.globals :
          obj = [i \in Instances |->
                   IF i \in made THEN ReadyObject(mem, dij, g) ELSE NoObject]
    /\ busy_tasks = <<>>
    /\ closedConns = {}
    /\ nconn = 0
    /\ th = [t \in Threads |-> IdleThread]
    /\ ops = 0
    /\ faults = 0
    /\ hist = [k \in Keys |-> NoSet]
    /\ ret = NoRet
    /\ rt = NoRT
    /\ dom = d

(***************************************************************************)
(* Helpers of the steps.                                                   *)
(***************************************************************************)
\* the property bag: getProperty gives "" for a name that is not set
HasProperty(name) == name \in DOMAIN win

SetProperty(bag, name, text) ==
    [n \in DOMAIN bag \cup {name} |-> IF n = name THEN text ELSE bag[n]]

ClearProperty(bag, name) == [n \in DOMAIN bag \ {name} |-> bag[n]]

\* _busy_tasks.remove(name): the first occurrence
RECURSIVE RemoveFirst(_, _)
RemoveFirst(s, x) ==
    IF s = <<>> THEN <<>>
    ELSE IF Head(s) = x THEN Tail(s)
    ELSE <<Head(s)>> \o RemoveFirst(Tail(s), x)

TaskName(endpoint) == "set." \o endpoint

\* a thread starts a call: it is idle and the call budget is not used up.
\* Idle threads are alike, so the call goes to the first of them.
CanStart(t) ==
    /\ t \in dom.threads
    /\ th[t].pc = "idle"
    /\ \A u \in dom.threads : u < t => th[u].pc # "idle"
    /\ ops < dom.maxops

\* an instance the callers hold: __init__ has returned
Usable(i) == obj[i].state = "ready"

\* the set() that has just returned stays 'just returned' for thread t's step
\* only while t is the get() that follows it
KeepRT(t) == IF rt.live /\ rt.getter = {t} THEN rt ELSE NoRT

\* the rows of the store file now at the store's path
StoreRows == IF curFile = 0 THEN <<>> ELSE files[curFile].rows

\* the keys some set() was called with
EverSet == {k \in Keys : hist[k].begun > 0}

\* the set() calls begun on the keys of S
RECURSIVE SetsBegun(_)
SetsBegun(S) ==
    IF S = {} THEN 0
    ELSE LET k == CHOOSE x \in S : TRUE
         IN  hist[k].begun + SetsBegun(S \ {k})

\* every set() begun has returned
AllSetsDone == \A k \in Keys : hist[k].done = hist[k].begun

\* what a call reports when it ends: l are its locals
RetOf(l, result, raised, where, after) ==
    [op |-> l.op, self |-> l.self, endpoint |-> l.endpoint,
     cs_in |-> l.cs_in, checksum |-> l.checksum,
     json_data |-> l.json_data, ts |-> l.ts, data |-> l.data,
     result |-> result, raised |-> raised, where |-> where,
     memRead |-> l.memRead, dbRead |-> l.dbRead, dbw |-> l.dbw,
     afterClose |-> l.afterClose, wroteMem |-> l.wroteMem,
     ran |-> l.ran, attempts |-> l.attempts,
     fresh |-> l.endpoint \notin EverSet,
     settled |-> l.settled /\ AllSetsDone /\ SetsBegun(Keys) = l.nsets,
     first |-> l.first, deleted |-> l.deleted, rows0 |-> l.rows0,
     after |-> after]

\* thread t's call returns result
Return(t, l, result) ==
    /\ th' = [th EXCEPT ![t] = IdleThread]
    /\ ret' = RetOf(l, result, FALSE, "", KeepRT(t))

\* thread t's call raises out of the method named where
Raise(t, l, where) ==
    /\ th' = [th EXCEPT ![t] = IdleThread]
    /\ ret' = RetOf(l, PyNone, TRUE, where, KeepRT(t))

\* thread t's call goes on with locals l
Goto(t, l) ==
    /\ th' = [th EXCEPT ![t] = l]
    /\ ret' = NoRet

(***************************************************************************)
(* The environment: the clock and the host's abort signal.                 *)
(***************************************************************************)
Tick ==
    /\ now < MaxClock
    /\ now' = now + 1
    /\ ret' = NoRet
    /\ UNCHANGED <<aborted, win, files, curFile, obj, busy_tasks, closedConns,
                   nconn, th, ops, faults, hist, rt, dom>>

Abort ==
    /\ ~aborted
    /\ aborted' = TRUE
    /\ ret' = NoRet
    /\ UNCHANGED <<now, win, files, curFile, obj, busy_tasks, closedConns,
                   nconn, th, ops, faults, hist, rt, dom>>


(***************************************************************************)
(* __init__, check_cleanup and _do_cleanup.                                *)
(***************************************************************************)
\* (eval(lastexecuted) + self._auto_clean_interval) < cur_time
CleanupDue(lastexecuted, cur_time) ==
    lastexecuted + AutoCleanInterval < cur_time

\* __init__ with check_cleanup: the marker is set when missing, the sweep is
\* started when it is due
Construct(t, i) ==
    /\ CanStart(t)
    /\ i \in dom.instances
    /\ obj[i].state = "none"
    /\ \E mem \in dom.mem, dij \in dom.data_is_json, g \in dom.globals :
         LET o == [NoObject EXCEPT !.attrs = TRUE, !.enable_mem_cache = mem,
                                   !.data_is_json = dij,
                                   !.global_checksum = g]
             l == [IdleThread EXCEPT !.op = "init", !.self = i]
         IN  IF ~HasProperty(LastExecutedKey)
             THEN /\ win' = SetProperty(win, LastExecutedKey, DateText(now))
                  /\ obj' = [obj EXCEPT ![i] = [o EXCEPT !.state = "ready"]]
                  /\ Return(t, l, PyNone)
             ELSE IF win[LastExecutedKey].kind # "datetime"
             THEN /\ obj' = [obj EXCEPT ![i] = [o EXCEPT !.state = "dead"]]
                  /\ Raise(t, l, "check_cleanup")
                  /\ win' = win
             ELSE IF CleanupDue(win[LastExecutedKey].expires, now)
             THEN /\ obj' = [obj EXCEPT ![i] = [o EXCEPT !.state = "init"]]
                  /\ Goto(t, [l EXCEPT !.pc = "do_cleanup", !.now0 = now])
                  /\ win' = win
             ELSE /\ obj' = [obj EXCEPT ![i] = [o EXCEPT !.state = "ready"]]
                  /\ Return(t, l, PyNone)
                  /\ win' = win
    /\ ops' = ops + 1
    /\ rt' = NoRT
    /\ UNCHANGED <<now, aborted, files, curFile, busy_tasks, closedConns,
                   nconn, faults, hist, dom>>

\* _do_cleanup returns, and __init__ after it: the instance is the caller's
InitReturns(t, l) ==
    /\ obj' = [obj EXCEPT ![l.self].state = "ready",
                          ![l.self].swept =
                             [at |-> l.now0, ops |-> ops,
                              ok |-> l.dbw # "fail",
                              deleted |-> l.deleted]]
    /\ Return(t, l, PyNone)

\* _do_cleanup called on an instance the caller holds
CallCleanup(t, i) ==
    /\ CanStart(t)
    /\ Usable(i)
    /\ i \in dom.instances
    /\ Goto(t, [IdleThread EXCEPT !.pc = "do_cleanup", !.op = "cleanup",
                                  !.self = i, !.afterClose = obj[i].closed,
                                  !.now0 = now,
                                  !.settled = AllSetsDone,
                                  !.nsets = SetsBegun(Keys),
                                  !.first = obj[i].swept,
                                  !.rows0 = StoreRows])
    /\ ops' = ops + 1
    /\ rt' = NoRT
    /\ UNCHANGED <<now, aborted, win, files, curFile, obj, busy_tasks,
                   closedConns, nconn, faults, hist, dom>>

\* _do_cleanup up to the in-progress check (lines 142-149)
DoCleanup(t) ==
    /\ th[t].pc = "do_cleanup"
    /\ LET l == th[t]
           o == obj[l.self]
       IN  IF o.exit \/ aborted
           THEN /\ InitReturns(t, l)
                /\ busy_tasks' = busy_tasks
           ELSE /\ busy_tasks' = Append(busy_tasks, ModuleName)
                /\ IF HasProperty(CleanBusyKey)
                   THEN InitReturns(t, l)
                   ELSE /\ Goto(t, [l EXCEPT !.pc = "clean_mark",
                                             !.now0 = now,
                                             !.ts = GetTimestamp(now)])
                        /\ obj' = [obj EXCEPT ![l.self].scan = now]
    /\ rt' = NoRT
    /\ UNCHANGED <<now, aborted, win, files, curFile, closedConns, nconn,
                   ops, faults, hist, dom>>

\* the in-progress marker is set and the rows are asked for (lines 150-153)
CleanMark(t) ==
    /\ th[t].pc = "clean_mark"
    /\ win' = SetProperty(win, CleanBusyKey, BusyText)
    /\ Goto(t, [th[t] EXCEPT !.pc = "get_database", !.query = "all",
                             !.ran = TRUE, !.retpc = "clean_loop"])
    /\ rt' = NoRT
    /\ UNCHANGED <<now, aborted, files, curFile, obj, busy_tasks, closedConns,
                   nconn, ops, faults, hist, dom>>

\* cache_expires < cur_timestamp
RowExpired(cache_expires, cur_timestamp) == cache_expires < cur_timestamp

\* one turn of the row loop, or the VACUUM after it (lines 154-169)
CleanLoop(t) ==
    /\ th[t].pc = "clean_loop"
    /\ LET l == th[t]
           o == obj[l.self]
           todo == IF l.query = "all"
                   THEN (IF l.cursor.ok THEN l.cursor.rows ELSE {})
                   ELSE l.todo
       IN  IF todo = {}
           THEN /\ Goto(t, [l EXCEPT !.pc = "get_database",
                                     !.query = "vacuum", !.todo = {},
                                     !.retpc = "clean_end"])
                /\ UNCHANGED <<win, obj>>
           ELSE \E cache_data \in todo :
                  IF o.exit \/ aborted
                  THEN /\ InitReturns(t, l)
                       /\ win' = win
                  ELSE /\ win' = ClearProperty(win, cache_data.id)
                       /\ obj' = obj
                       /\ IF RowExpired(cache_data.expires, l.ts)
                          THEN Goto(t, [l EXCEPT !.pc = "get_database",
                                                 !.query = "delete",
                                                 !.endpoint = cache_data.id,
                                                 !.todo = todo \ {cache_data},
                                                 !.retpc = "clean_loop"])
                          ELSE Goto(t, [l EXCEPT !.query = "next",
                                                 !.todo = todo \ {cache_data}])
    /\ rt' = NoRT
    /\ UNCHANGED <<now, aborted, files, curFile, busy_tasks, closedConns,
                   nconn, ops, faults, hist, dom>>

\* the end of the sweep (lines 171-174)
CleanEnd(t) ==
    /\ th[t].pc = "clean_end"
    /\ busy_tasks' = RemoveFirst(busy_tasks, ModuleName)
    /\ win' = ClearProperty(
                 SetProperty(win, LastExecutedKey, DateText(th[t].now0)),
                 CleanBusyKey)
    /\ InitReturns(t, th[t])
    /\ rt' = NoRT
    /\ UNCHANGED <<now, aborted, files, curFile, closedConns, nconn, ops,
                   faults, hist, dom>>

(***************************************************************************)
(* _get_database and _execute_sql.                                         *)
(***************************************************************************)
\* if self._database: return self._database (lines 177-178)
GetDatabase(t) ==
    /\ th[t].pc = "get_database"
    /\ LET l == th[t]
           o == obj[l.self]
       IN  IF o.database # NoConn
           THEN Goto(t, [l EXCEPT !.pc = "execute_sql", !.conn = o.database,
                                  !.retries = 0, !.attempts = 0,
                                  !.lastfail = ""])
           ELSE Goto(t, [l EXCEPT !.pc = "db_connect"])
    /\ rt' = KeepRT(t)
    /\ UNCHANGED <<now, aborted, win, files, curFile, obj, busy_tasks,
                   closedConns, nconn, ops, faults, hist, dom>>

\* the file sqlite3.connect opens: the one at the path, made when missing
FilesAfterConnect == 
    IF curFile = 0 THEN Append(files, [table |-> FALSE, rows |-> <<>>])
    ELSE files

\* connect and the validation query (lines 180-199)
DbConnect(t) ==
    /\ th[t].pc = "db_connect"
    /\ LET l == th[t]
           f == IF curFile = 0 THEN Len(files) + 1 ELSE curFile
       IN  /\ curFile = 0 => Len(files) < MaxFiles
           /\ files' = FilesAfterConnect
           /\ curFile' = f
           /\ IF files'[f].table
              THEN /\ nconn < MaxConns
                   /\ nconn' = nconn + 1
                   /\ obj' = [obj EXCEPT ![l.self].database =
                                            [id |-> nconn + 1, file |-> f]]
                   /\ Goto(t, [l EXCEPT !.pc = "execute_sql",
                                        !.conn = [id |-> nconn + 1,
                                                  file |-> f],
                                        !.retries = 0, !.attempts = 0,
                                        !.lastfail = ""])
              ELSE /\ Goto(t, [l EXCEPT !.pc = "db_recreate"])
                   /\ UNCHANGED <<nconn, obj>>
    /\ rt' = KeepRT(t)
    /\ UNCHANGED <<now, aborted, win, busy_tasks, closedConns, ops, faults, hist, dom>>

\* the store is deleted and made again with its table (lines 200-214)
DbRecreate(t) ==
    /\ th[t].pc = "db_recreate"
    /\ Len(files) < MaxFiles
    /\ nconn < MaxConns
    /\ LET l == th[t]
           f == Len(files) + 1
           c == [id |-> nconn + 1, file |-> f]
       IN  /\ files' = Append(files, [table |-> TRUE, rows |-> <<>>])
           /\ curFile' = f
           /\ nconn' = nconn + 1
           /\ obj' = [obj EXCEPT ![l.self].database = c]
           /\ Goto(t, [l EXCEPT !.pc = "execute_sql", !.conn = c,
                                !.retries = 0, !.attempts = 0,
                                !.lastfail = ""])
    /\ rt' = KeepRT(t)
    /\ UNCHANGED <<now, aborted, win, busy_tasks, closedConns, ops, faults, hist, dom>>

\* what one attempt of a statement can end in
Outcomes(c) ==
    IF c.id \in closedConns THEN {"closed"}
    ELSE {"ok"} \cup (IF faults < dom.maxfaults THEN {"locked", "other"}
                       ELSE {})

\* the rows of a file after the statement of l, DELETE removing nothing
RowsAfterNoDelete(rows, l) ==
    CASE l.query = "insert" ->
           [k \in DOMAIN rows \cup {l.endpoint} |->
               IF k = l.endpoint
               THEN [expires |-> l.ts, data |-> l.text,
                     checksum |-> l.checksum]
               ELSE rows[k]]
      [] OTHER -> rows

\* the rows of a file after the statement of l
RowsAfter(rows, l) ==
    CASE l.query = "insert" ->
           [k \in DOMAIN rows \cup {l.endpoint} |->
               IF k = l.endpoint
               THEN [expires |-> l.ts, data |-> l.text,
                     checksum |-> l.checksum]
               ELSE rows[k]]
      [] l.query = "delete" ->
           [k \in DOMAIN rows \ {l.endpoint} |-> rows[k]]
      [] OTHER -> rows

\* the cursor the statement of l gives on these rows
CursorOf(rows, l) ==
    CASE l.query = "one" ->
           [ok |-> TRUE,
            rows |-> {[id |-> k, expires |-> rows[k].expires,
                       data |-> rows[k].data,
                       checksum |-> rows[k].checksum] :
                      k \in DOMAIN rows \cap {l.endpoint}}]
      [] l.query = "all" ->
           [ok |-> TRUE,
            rows |-> {[id |-> k, expires |-> rows[k].expires,
                       data |-> "", checksum |-> 0] : k \in DOMAIN rows}]
      [] OTHER -> [ok |-> TRUE, rows |-> {}]

\* while retries < 10 and not self._monitor.abortRequested()
RetryLoopGoesOn(retries) == retries < MaxRetries /\ ~aborted

\* _execute_sql returns to its caller
SqlReturns(t, l, cursor, outcome) ==
    Goto(t, [l EXCEPT !.pc = l.retpc, !.cursor = cursor,
                      !.dbw = IF l.op \in {"init", "cleanup"}
                                 /\ l.dbw = "fail"
                              THEN "fail" ELSE outcome])

\* one turn of the retry loop of _execute_sql (lines 222-252)
ExecuteSql(t) ==
    /\ th[t].pc = "execute_sql"
    /\ LET l == th[t]
           o == obj[l.self]
           g == l.conn.file
       IN  IF l.retries < MaxRetries /\ ~o.attrs
           THEN /\ Raise(t, l, "_execute_sql")
                /\ UNCHANGED <<files, faults>>
           ELSE IF ~RetryLoopGoesOn(l.retries)
           THEN /\ SqlReturns(t, l, NoCursor, "fail")
                /\ UNCHANGED <<files, faults>>
           ELSE IF o.exit
           THEN /\ SqlReturns(t, l, NoCursor, "fail")
                /\ UNCHANGED <<files, faults>>
           ELSE \E outcome \in Outcomes(l.conn) :
                  LET m == [l EXCEPT !.attempts = l.attempts + 1,
                                     !.lastfail = IF outcome = "ok" THEN ""
                                                  ELSE outcome,
                                     !.deleted =
                                        IF outcome = "ok"
                                           /\ l.query = "delete"
                                        THEN l.deleted + 1 ELSE l.deleted]
                  IN
                  CASE outcome = "ok" ->
                         /\ files' = [files EXCEPT ![g].rows =
                                         RowsAfter(files[g].rows, l)]
                         /\ SqlReturns(t, m, CursorOf(files[g].rows, l), "ok")
                         /\ faults' = faults
                    [] outcome = "locked" ->
                         /\ faults' = faults + 1
                         /\ Goto(t, [m EXCEPT !.retries = l.retries + 1])
                         /\ files' = files
                    [] outcome = "other" ->
                         /\ faults' = faults + 1
                         /\ SqlReturns(t, m, NoCursor, "fail")
                         /\ files' = files
                    [] OTHER ->
                         /\ SqlReturns(t, m, NoCursor, "fail")
                         /\ UNCHANGED <<files, faults>>
    /\ rt' = KeepRT(t)
    /\ UNCHANGED <<now, aborted, win, curFile, obj, busy_tasks, closedConns,
                   nconn, ops, hist, dom>>

(***************************************************************************)
(* get: _get_mem_cache, then _get_db_cache.                                *)
(***************************************************************************)
\* the comparison with >= in the place of >
NotExpiredInclusive(expires, cur_time) == expires >= cur_time

\* cachedata[0] > cur_time (line 104), cache_data[0] > cur_time (line 123)
NotExpired(expires, cur_time) == expires > cur_time

\* the test skipped for a stored checksum of 0, not for a requested one
ChecksumPassesStoredZero(checksum, stored) == stored = 0 \/ checksum = stored

\* the comparison without the 'not checksum' alternative
ChecksumPassesStrict(checksum, stored) == checksum = stored

\* not checksum or checksum == cachedata[2] (lines 105 and 124)
ChecksumPasses(checksum, stored) == checksum = 0 \/ checksum = stored

\* the payload read out of a property text (lines 100-103, and the [1] of
\* line 106): none when json.loads or eval raises, or the text is no tuple
MemDecode(text, as_json) ==
    IF text.kind # "cache" THEN {}
    ELSE IF as_json /\ text.fmt # "list" THEN {}
    ELSE Decode(text.data, as_json)

\* the outer form json.dumps and repr give the triple
TripleFormat(as_json) == IF as_json THEN "list" ELSE "tuple"

\* _set_mem_cache (lines 109-115)
SetMemCache(bag, endpoint, checksum, expires, data, as_json) ==
    SetProperty(bag, endpoint,
                CacheText(TripleFormat(as_json), expires,
                          Encode(data, as_json), checksum))

\* get up to the end of _get_mem_cache (lines 60-68, 95-107)
GetMem(t, i, endpoint, checksum, json_data) ==
    /\ CanStart(t)
    /\ Usable(i)
    /\ endpoint \in dom.getkeys
    /\ checksum \in dom.checksums
    /\ json_data \in dom.json
    /\ LET o == obj[i]
           as_json == json_data \/ o.data_is_json
           l0 == [IdleThread EXCEPT
                    !.op = "get", !.self = i, !.endpoint = endpoint,
                    !.cs_in = checksum,
                    !.checksum = GetChecksum(o.global_checksum, checksum),
                    !.ts = GetTimestamp(now), !.json_data = as_json,
                    !.afterClose = o.closed, !.settled = AllSetsDone,
                    !.nsets = SetsBegun(Keys)]
           hit == o.enable_mem_cache /\ o.attrs /\ HasProperty(endpoint)
           l == IF hit /\ win[endpoint].kind = "cache"
                THEN [l0 EXCEPT !.memRead =
                         [expires |-> win[endpoint].expires,
                          data |-> win[endpoint].data,
                          checksum |-> win[endpoint].checksum]]
                ELSE l0
           after == IF rt.live /\ rt.getter = NoThread /\ rt.self = i
                    THEN [rt EXCEPT !.getter = {t}] ELSE NoRT
           todb == [l EXCEPT !.pc = "get_database", !.query = "one",
                             !.retpc = "get_db"]
       IN  /\ rt' = after
           /\ IF o.enable_mem_cache /\ ~o.attrs
              THEN /\ th' = th
                   /\ ret' = RetOf(l, PyNone, TRUE, "_get_mem_cache", after)
              ELSE IF ~hit
              THEN Goto(t, todb)
              ELSE IF MemDecode(win[endpoint], as_json) = {}
              THEN /\ th' = th
                   /\ ret' = RetOf(l, PyNone, TRUE, "_get_mem_cache", after)
              ELSE LET v == CHOOSE x \in MemDecode(win[endpoint], as_json) :
                                TRUE
                   IN  IF /\ NotExpired(win[endpoint].expires, l.ts)
                          /\ ChecksumPasses(l.checksum,
                                            win[endpoint].checksum)
                          /\ v # PyNone
                       THEN /\ th' = th
                            /\ ret' = RetOf(l, v, FALSE, "", after)
                       ELSE Goto(t, todb)
    /\ ops' = ops + 1
    /\ UNCHANGED <<now, aborted, win, files, curFile, obj, busy_tasks,
                   closedConns, nconn, faults, hist, dom>>

\* _get_db_cache after its statement (lines 121-131)
GetDb(t) ==
    /\ th[t].pc = "get_db"
    /\ LET l == th[t]
           o == obj[l.self]
       IN  IF ~l.cursor.ok \/ l.cursor.rows = {}
           THEN /\ Return(t, l, PyNone)
                /\ win' = win
           ELSE LET cache_data == CHOOSE r \in l.cursor.rows : TRUE
                    m == [l EXCEPT !.dbRead =
                            [expires |-> cache_data.expires,
                             data |-> cache_data.data,
                             checksum |-> cache_data.checksum]]
                IN  IF ~(/\ NotExpired(cache_data.expires, l.ts)
                         /\ ChecksumPasses(l.checksum, cache_data.checksum))
                    THEN /\ Return(t, m, PyNone)
                         /\ win' = win
                    ELSE IF Decode(cache_data.data, l.json_data) = {}
                    THEN /\ Raise(t, m, "_get_db_cache")
                         /\ win' = win
                    ELSE LET result ==
                               CHOOSE x \in Decode(cache_data.data,
                                                   l.json_data) : TRUE
                         IN  IF ~o.enable_mem_cache
                             THEN /\ Return(t, m, result)
                                  /\ win' = win
                             ELSE IF ~o.attrs
                             THEN /\ Raise(t, m, "_set_mem_cache")
                                  /\ win' = win
                             ELSE /\ win' = SetMemCache(win, l.endpoint,
                                               l.checksum,
                                               cache_data.expires, result,
                                               l.json_data)
                                  /\ Return(t, m, result)
    /\ rt' = KeepRT(t)
    /\ UNCHANGED <<now, aborted, files, curFile, obj, busy_tasks, closedConns,
                   nconn, ops, faults, hist, dom>>

(***************************************************************************)
(* set.                                                                    *)
(***************************************************************************)
\* the task is registered, checksum and expires are computed (lines 74-77)
SetBegin(t, i, endpoint, data, checksum, expiration, json_data) ==
    /\ CanStart(t)
    /\ Usable(i)
    /\ endpoint \in dom.setkeys
    /\ data \in dom.values
    /\ checksum \in dom.checksums
    /\ expiration \in dom.ttls
    /\ json_data \in dom.json
    /\ LET o == obj[i]
       IN  Goto(t, [IdleThread EXCEPT
                      !.pc = "set_mem", !.op = "set", !.self = i,
                      !.endpoint = endpoint, !.data = data,
                      !.cs_in = checksum,
                      !.checksum = GetChecksum(o.global_checksum, checksum),
                      !.ts = GetTimestamp(now + expiration),
                      !.json_data = json_data \/ o.data_is_json,
                      !.afterClose = o.closed])
    /\ busy_tasks' = Append(busy_tasks, TaskName(endpoint))
    /\ hist' = [hist EXCEPT ![endpoint].begun = @ + 1]
    /\ ops' = ops + 1
    /\ rt' = NoRT
    /\ UNCHANGED <<now, aborted, win, files, curFile, obj, closedConns,
                   nconn, faults, dom>>

\* if self.enable_mem_cache and not self._exit: _set_mem_cache (lines 79-80)
SetMem(t) ==
    /\ th[t].pc = "set_mem"
    /\ LET l == th[t]
           o == obj[l.self]
       IN  IF ~(o.enable_mem_cache /\ ~o.exit)
           THEN /\ Goto(t, [l EXCEPT !.pc = "set_db"])
                /\ win' = win
           ELSE IF (l.json_data /\ ~JsonSerializable(l.data)) \/ ~o.attrs
           THEN /\ Raise(t, l, "_set_mem_cache")
                /\ win' = win
           ELSE /\ win' = SetMemCache(win, l.endpoint, l.checksum, l.ts,
                                      l.data, l.json_data)
                /\ Goto(t, [l EXCEPT !.pc = "set_db", !.wroteMem = TRUE])
    /\ rt' = NoRT
    /\ UNCHANGED <<now, aborted, files, curFile, obj, busy_tasks, closedConns,
                   nconn, ops, faults, hist, dom>>

\* if not self._exit: _set_db_cache, up to its statement (lines 82-83, 133-139)
SetDb(t) ==
    /\ th[t].pc = "set_db"
    /\ LET l == th[t]
           o == obj[l.self]
       IN  IF o.exit
           THEN Goto(t, [l EXCEPT !.pc = "set_end"])
           ELSE IF l.json_data /\ ~JsonSerializable(l.data)
           THEN Raise(t, l, "_set_db_cache")
           ELSE Goto(t, [l EXCEPT !.pc = "get_database", !.query = "insert",
                                  !.text = Encode(l.data, l.json_data),
                                  !.ran = TRUE, !.retpc = "set_end"])
    /\ rt' = NoRT
    /\ UNCHANGED <<now, aborted, win, files, curFile, obj, busy_tasks,
                   closedConns, nconn, ops, faults, hist, dom>>

\* self._busy_tasks.remove(task_name) (line 85)
SetEnd(t) ==
    /\ th[t].pc = "set_end"
    /\ LET l == th[t]
       IN  /\ busy_tasks' = RemoveFirst(busy_tasks, TaskName(l.endpoint))
           /\ Return(t, l, PyNone)
           /\ rt' = [live |-> TRUE, getter |-> NoThread, self |-> l.self,
                     endpoint |-> l.endpoint, cs_in |-> l.cs_in,
                     checksum |-> l.checksum,
                     json_data |-> l.json_data, data |-> l.data,
                     expires |-> l.ts, ran |-> l.ran,
                     wroteMem |-> l.wroteMem, dbw |-> l.dbw]
           /\ hist' = [hist EXCEPT ![l.endpoint] =
                        [begun |-> @.begun, done |-> @.done + 1,
                         data |-> l.data, cs_in |-> l.cs_in,
                         json_data |-> l.json_data, expires |-> l.ts,
                         stored |-> l.ran /\ l.dbw = "ok"]]
    /\ UNCHANGED <<now, aborted, win, files, curFile, obj, closedConns, nconn,
                   ops, faults, dom>>

(***************************************************************************)
(* close and __del__.                                                      *)
(***************************************************************************)
\* self._exit = True (line 40)
CloseBegin(t, i) ==
    /\ CanStart(t)
    /\ Usable(i)
    /\ obj' = [obj EXCEPT ![i].exit = TRUE]
    /\ Goto(t, [IdleThread EXCEPT !.pc = "close_wait", !.op = "close",
                                  !.self = i, !.afterClose = obj[i].closed])
    /\ ops' = ops + 1
    /\ rt' = NoRT
    /\ UNCHANGED <<now, aborted, win, files, curFile, busy_tasks, closedConns,
                   nconn, faults, hist, dom>>

\* close() without its wait loop
WaitIsOverAtOnce(tasks, abort) == TRUE

\* the wait is over: not (self._busy_tasks and not abortRequested())
WaitIsOver(tasks, abort) == tasks = <<>> \/ abort

\* while self._busy_tasks and not self._monitor.abortRequested() (lines 41-42)
CloseWait(t) ==
    /\ th[t].pc = "close_wait"
    /\ LET l == th[t]
           o == obj[l.self]
       IN  IF busy_tasks # <<>> /\ ~o.attrs
           THEN Raise(t, l, "close")
           ELSE /\ WaitIsOver(busy_tasks, aborted)
                /\ Goto(t, [l EXCEPT !.pc = "close_db"])
    /\ rt' = NoRT
    /\ UNCHANGED <<now, aborted, win, files, curFile, obj, busy_tasks,
                   closedConns, nconn, ops, faults, hist, dom>>

\* the connection is committed and closed, the attributes are deleted
\* (lines 44-54)
CloseFinish(t) ==
    /\ th[t].pc = "close_db"
    /\ LET l == th[t]
           o == obj[l.self]
       IN  /\ closedConns' = IF o.database # NoConn
                             THEN closedConns \cup {o.database.id}
                             ELSE closedConns
           /\ IF ~o.attrs
              THEN /\ obj' = [obj EXCEPT ![l.self].database = NoConn]
                   /\ Raise(t, l, "close")
              ELSE /\ obj' = [obj EXCEPT ![l.self] =
                                [o EXCEPT !.database = NoConn,
                                          !.attrs = FALSE, !.closed = TRUE,
                                          !.state = IF l.finalizer THEN "dead"
                                                    ELSE o.state]]
                   /\ Return(t, l, PyNone)
    /\ rt' = NoRT
    /\ UNCHANGED <<now, aborted, win, files, curFile, busy_tasks, nconn, ops,
                   faults, hist, dom>>

\* __del__: the last reference is dropped; close() unless _exit (lines 56-58)
Del(t, i) ==
    /\ CanStart(t)
    /\ Usable(i)
    /\ \A u \in Threads : th[u].pc # "idle" => th[u].self # i
    /\ IF obj[i].exit
       THEN /\ obj' = [obj EXCEPT ![i].state = "dead"]
            /\ Return(t, [IdleThread EXCEPT !.op = "del", !.self = i,
                                           !.afterClose = obj[i].closed],
                      PyNone)
       ELSE /\ obj' = [obj EXCEPT ![i].exit = TRUE]
            /\ Goto(t, [IdleThread EXCEPT !.pc = "close_wait", !.op = "del",
                                          !.self = i, !.finalizer = TRUE])
    /\ ops' = ops + 1
    /\ rt' = NoRT
    /\ UNCHANGED <<now, aborted, win, files, curFile, busy_tasks, closedConns,
                   nconn, faults, hist, dom>>

(***************************************************************************)
(* The specification.                                                      *)
(***************************************************************************)
\* the calls on an instance: get, set and close
NextCalls ==
    \/ \E t \in Threads : GetDatabase(t)
    \/ \E t \in Threads : DbConnect(t)
    \/ \E t \in Threads : DbRecreate(t)
    \/ \E t \in Threads : ExecuteSql(t)
    \/ \E t \in Threads, i \in Instances, k \in Keys \cup {LastExecutedKey},
          c \in dom.checksums, j \in BOOLEAN : GetMem(t, i, k, c, j)
    \/ \E t \in Threads : GetDb(t)
    \/ \E t \in Threads, i \in Instances, k \in Keys, v \in dom.values,
          c \in dom.checksums, e \in dom.ttls, j \in BOOLEAN :
          SetBegin(t, i, k, v, c, e, j)
    \/ \E t \in Threads : SetMem(t)
    \/ \E t \in Threads : SetDb(t)
    \/ \E t \in Threads : SetEnd(t)
    \/ \E t \in Threads, i \in Instances : CloseBegin(t, i)
    \/ \E t \in Threads : CloseWait(t)
    \/ \E t \in Threads : CloseFinish(t)

\* the construction of instances with the sweep it may run, and their end
NextSweep ==
    \/ \E t \in Threads, i \in Instances : Del(t, i)
    \/ \E t \in Threads, i \in Instances : Construct(t, i)
    \/ \E t \in Threads : DoCleanup(t)
    \/ \E t \in Threads : CleanMark(t)
    \/ \E t \in Threads : CleanLoop(t)
    \/ \E t \in Threads : CleanEnd(t)

\* two threads calling get, set and close on one constructed instance, the
\* abort signal firing at any moment
Next == NextCalls \/ Abort

Spec == InitWith(CoreDom, {"a"}) /\ [][Next]_vars

\* the inputs of the callers of specification OrderSpec: one key, two values
OrderDom ==
    [threads |-> Threads,
     instances |-> {"a"},
     values |-> {PyInt(1), PyInt(2)},
     checksums |-> {<<>>},
     json |-> {FALSE},
     ttls |-> {2},
     mem |-> BOOLEAN,
     data_is_json |-> {FALSE},
     globals |-> {<<>>},
     hasFile |-> {FALSE},
     getkeys |-> {"k1"},
     setkeys |-> {"k1"},
     maxops |-> MaxOps,
     maxfaults |-> 0]

\* two threads calling get, set and close for one key on one instance
OrderSpec == InitWith(OrderDom, {"a"}) /\ [][Next]_vars

\* the inputs of the callers of specification PromoSpec: two instances, with
\* and without the property tier, and the checksums "" and "c"
PromoDom ==
    [threads |-> {1},
     instances |-> {"a", "b"},
     values |-> {PyInt(1)},
     checksums |-> {<<>>, <<99>>},
     json |-> {FALSE},
     ttls |-> {2},
     mem |-> BOOLEAN,
     data_is_json |-> {FALSE},
     globals |-> {<<>>},
     hasFile |-> {FALSE},
     getkeys |-> {"k1"},
     setkeys |-> {"k1"},
     maxops |-> MaxOps,
     maxfaults |-> 0]

\* one thread constructing a second instance and calling get, set and close
\* on the two, no sweep being due
NextPromo ==
    \/ NextCalls
    \/ Abort
    \/ \E t \in Threads, i \in Instances : Construct(t, i)

PromoSpec == InitWith(PromoDom, {"a"}) /\ [][NextPromo]_vars

\* the inputs of the callers of specification SeqSpec: every encoding, the
\* checksums "", "ab", "ba" and "c", the engine's own property name as a key
SeqDom ==
    [threads |-> {1},
     instances |-> {"a"},
     values |-> {PyInt(1)},
     checksums |-> {<<>>, <<97, 98>>, <<98, 97>>, <<99>>},
     json |-> BOOLEAN,
     ttls |-> {2},
     mem |-> BOOLEAN,
     data_is_json |-> {FALSE},
     globals |-> {<<>>},
     hasFile |-> {FALSE},
     getkeys |-> {"k1", LastExecutedKey},
     setkeys |-> {"k1"},
     maxops |-> MaxSeqOps,
     maxfaults |-> MaxFaults]

\* one thread calling get, set, close and __del__ one after the other, while
\* time passes, statements fail and the abort signal may fire
NextSeq ==
    \/ NextCalls
    \/ Abort
    \/ Tick
    \/ \E t \in Threads, i \in Instances : Del(t, i)

SeqSpec == InitWith(SeqDom, {"a"}) /\ [][NextSeq]_vars

\* the inputs of the callers of specification SweepSpec
SweepDom ==
    [threads |-> Threads,
     instances |-> Instances,
     values |-> {PyInt(1)},
     checksums |-> {<<>>},
     json |-> {FALSE},
     ttls |-> {1},
     mem |-> {TRUE},
     data_is_json |-> {FALSE},
     globals |-> {<<>>},
     hasFile |-> {FALSE},
     getkeys |-> {"k1"},
     setkeys |-> {"k1"},
     maxops |-> MaxOps,
     maxfaults |-> 0]

\* two threads constructing further instances, whose sweeps fall due as time
\* passes, next to the calls on the instances there are
NextAll ==
    \/ NextCalls
    \/ Abort
    \/ Tick
    \/ NextSweep

SweepSpec == InitWith(SweepDom, {"a"}) /\ [][NextAll]_vars

\* the inputs of the callers of specification CleanSpec: entries that expire
\* one second after they are stored
CleanDom ==
    [threads |-> {1},
     instances |-> {"a"},
     values |-> {PyInt(1)},
     checksums |-> {<<>>},
     json |-> {FALSE},
     ttls |-> {1},
     mem |-> {TRUE},
     data_is_json |-> {FALSE},
     globals |-> {<<>>},
     hasFile |-> {FALSE},
     getkeys |-> {"k1"},
     setkeys |-> Keys,
     maxops |-> MaxOps,
     maxfaults |-> MaxFaults]

\* one thread calling get, set, close and _do_cleanup one after the other,
\* while time passes, statements fail and the abort signal may fire
NextClean ==
    \/ NextCalls
    \/ Abort
    \/ Tick
    \/ \E t \in Threads, i \in Instances : CallCleanup(t, i)
    \/ \E t \in Threads : DoCleanup(t)
    \/ \E t \in Threads : CleanMark(t)
    \/ \E t \in Threads : CleanLoop(t)
    \/ \E t \in Threads : CleanEnd(t)

CleanSpec == InitWith(CleanDom, {"a"}) /\ [][NextClean]_vars

(***************************************************************************)
(* The properties.  They are stated on ret, the call that has just         *)
(* returned or raised, on ret.after, the set() that returned right before  *)
(* a get() started, and on hist, the set() calls made on each key.         *)
(***************************************************************************)
\* the set() that returned right before the get() of ret started, on the same
\* instance and key, with its statement carried out; the get()'s own
\* statement, if it made one, did not fail; the engine is running
FollowsStoredSet ==
    /\ ret.op = "get"
    /\ ret.after.live
    /\ ret.after.endpoint = ret.endpoint
    /\ ret.after.ran
    /\ ret.after.dbw = "ok"
    /\ ret.dbw # "fail"
    /\ ~obj[ret.self].exit
    /\ ret.ts < ret.after.expires

\* the entry the get() of ret decided on: the row if it read one, else the
\* property
SourceEntry == IF ret.dbRead # NoEntry THEN ret.dbRead ELSE ret.memRead

\* C1: a set(k, v) that completes on a running engine, immediately followed
\* by get(k) with the same checksum and encoding before the expiry time,
\* makes that get return exactly v and not raise: with the property tier on
\* or off.  (The set is the only one made on k, no set runs beside the get,
\* the set's statement was executed and the get's did not fail: overwrites,
\* an abort and a locked store are left out.)
C1_RoundTrip ==
    (/\ FollowsStoredSet
     /\ ret.settled
     /\ hist[ret.endpoint].begun = 1
     /\ ret.after.cs_in = ret.cs_in
     /\ ret.after.json_data = ret.json_data)
    => (~ret.raised /\ ret.result = ret.after.data)

\* C2: a get returns a value only if its timestamp is strictly less than the
\* expires field of the entry it decided on (property or row); once the
\* timestamp has reached expires the get returns absent.
C2_ExpiryBoundary ==
    (ret.op = "get" /\ ret.result # PyNone)
    => (SourceEntry # NoEntry /\ ret.ts < SourceEntry.expires)

\* C2 witness: a get whose timestamp equals the expires field of the row it
\* read, with a checksum that passes, has returned absent
C2_Witness ==
    /\ ret.op = "get"
    /\ ~ret.raised
    /\ ret.dbRead # NoEntry
    /\ ret.ts = ret.dbRead.expires
    /\ ret.checksum = ret.dbRead.checksum
    /\ ret.result = PyNone

\* C3 as stated: right after set(k, v, checksum=a), get(k, checksum=b) returns
\* absent for every string b different from a, and a value for b = a.
C3_AsStated ==
    (FollowsStoredSet /\ ~ret.raised /\ ret.after.json_data = ret.json_data)
    => (ret.result = PyNone <=> ret.cs_in # ret.after.cs_in)

\* C3 amended: a get that decides on an unexpired entry returns absent when
\* the fingerprint of its checksum is neither 0 nor the entry's fingerprint,
\* and the entry's value otherwise; and a get right after set(k, v,
\* checksum=a) on an engine with the property tier finds the property with
\* the fingerprint of a.
C3_ChecksumGating ==
    /\ (/\ ret.op = "get"
        /\ ~ret.raised
        /\ SourceEntry # NoEntry
        /\ ret.ts < SourceEntry.expires)
       => IF ret.checksum # 0 /\ ret.checksum # SourceEntry.checksum
          THEN ret.result = PyNone
          ELSE ret.result \in Decode(SourceEntry.data, ret.json_data)
    /\ (/\ ret.op = "get"
        /\ ret.after.live
        /\ ret.after.endpoint = ret.endpoint
        /\ ret.after.wroteMem)
       => /\ ret.memRead # NoEntry
          /\ ret.memRead.checksum =
                GetChecksum(obj[ret.self].global_checksum, ret.after.cs_in)

\* C3 witness: a get right after a set with checksum "ab" asked with checksum
\* "ba", before expiry, and has returned the value
C3_Witness ==
    /\ FollowsStoredSet
    /\ ret.after.cs_in = <<97, 98>>
    /\ ret.cs_in = <<98, 97>>
    /\ ~ret.raised
    /\ ret.result = ret.after.data

\* C4: a get(k) issued before any set(k) returns absent and does not raise,
\* for every key of the property bag's namespace.
C4_GetBeforeSet ==
    (ret.op = "get" /\ ret.fresh) => (~ret.raised /\ ret.result = PyNone)

\* C5: when the only calls made were set() calls, each on a key of its own,
\* and all have returned with their statements carried out, a get(k) started
\* after that on the running engine, before expiry, returns the value set
\* for k.
C5_DistinctKeysKeepData ==
    (/\ ret.op = "get"
     /\ ret.settled
     /\ ops = SetsBegun(Keys) + 1
     /\ \A k \in Keys : hist[k].begun <= 1
     /\ ret.endpoint \in Keys
     /\ hist[ret.endpoint].done = 1
     /\ hist[ret.endpoint].stored
     /\ hist[ret.endpoint].cs_in = ret.cs_in
     /\ hist[ret.endpoint].json_data = ret.json_data
     /\ ret.ts < hist[ret.endpoint].expires
     /\ ret.dbw # "fail"
     /\ ~obj[ret.self].exit)
    => (~ret.raised /\ ret.result = hist[ret.endpoint].data)

\* a set() is registered in the list close() waits on
SetRegistered == \E n \in 1..Len(busy_tasks), k \in Keys :
                    busy_tasks[n] = TaskName(k)

\* C6: a close() leaves its wait for the commit and close of the connection
\* only when no set() is registered as in flight or the abort signal has
\* fired; and a set() that is executing is registered.
C6_CloseWaitsForSet ==
    [][\A t \in Threads :
          (th[t].pc = "close_wait" /\ th'[t].pc = "close_db")
          => \/ aborted
             \/ (~SetRegistered /\ \A u \in Threads : th[u].op # "set")]_vars

\* C6 witness: a close() is in its wait while a set() is registered and
\* executing, and the abort signal has not fired
C6_Witness ==
    /\ ~aborted
    /\ SetRegistered
    /\ \E t, u \in Threads :
          th[t].pc = "close_wait" /\ th[t].op = "close" /\ th[u].op = "set"

\* C7: after close() has returned on an instance, a later get on it returns
\* absent, a later set on it writes neither the property nor the row, and
\* neither raises.
C7_ClosedIsNoOp ==
    /\ (ret.op = "get" /\ ret.afterClose)
       => (~ret.raised /\ ret.result = PyNone)
    /\ (ret.op = "set" /\ ret.afterClose)
       => (~ret.raised /\ ~ret.wroteMem /\ ~ret.ran)

\* C8: a close() on an instance already closed completes without error and
\* leaves the flag set and no connection held.
C8_CloseIdempotent ==
    (ret.op = "close" /\ ret.afterClose)
    => /\ ~ret.raised
       /\ obj[ret.self].exit
       /\ obj[ret.self].database = NoConn

\* no set() and no sweep is executing
NothingExecuting ==
    \A t \in Threads : th[t].op \notin {"set", "init", "cleanup"}

\* C9: when every set() and every sweep that was started has finished
\* executing and the abort signal has not fired, a close() in its wait finds
\* the list it waits on empty, so that it can return.
C9_CloseTerminates ==
    (/\ \E t \in Threads : th[t].pc = "close_wait"
     /\ NothingExecuting
     /\ ~aborted)
    => busy_tasks = <<>>

\* C10: one call of _execute_sql makes at most 10 attempts, a further attempt
\* only after a 'locked' failure, and it never raises to its caller.
C10_StatementProtocol ==
    /\ \A t \in Threads :
          /\ th[t].attempts <= MaxRetries
          /\ (th[t].pc = "execute_sql" /\ th[t].attempts > 0)
             => th[t].lastfail = "locked"
    /\ ~(ret.raised /\ ret.where = "_execute_sql")

\* C19: once close() has returned on an instance, the instance holds no
\* connection in any later state: no later call on it opens one.
C19_NoConnectionAfterClose ==
    \A i \in Instances : obj[i].closed => obj[i].database = NoConn

\* thread t takes a step of a get() from this state to the next
GetSteps(t) == th[t].op = "get" /\ th'[t] # th[t]

\* the step is the promotion of _get_db_cache: a row was read and is returned
\* by an engine with the property tier
Promotes(t) ==
    /\ th[t].pc = "get_db"
    /\ obj[th[t].self].enable_mem_cache
    /\ ret'.op = "get"
    /\ ret'.dbRead # NoEntry
    /\ ret'.result # PyNone

\* C20: no step of a get(k) adds, changes or removes a row of the store, none
\* changes the property of a key other than k, and the property of k changes
\* only in the promotion step.
C20_GetFrame ==
    [][\A t \in Threads :
          GetSteps(t)
          => /\ StoreRows' = StoreRows
             /\ \A n \in (DOMAIN win \cup DOMAIN win') \ {th[t].endpoint} :
                   /\ n \in DOMAIN win
                   /\ n \in DOMAIN win'
                   /\ win'[n] = win[n]
             /\ (win' # win => Promotes(t))]_vars

\* C13 as stated: a get that decides on an unexpired entry stored with
\* checksum 0 returns it, whatever checksum the get asks with.
C13_AsStated ==
    (/\ ret.op = "get"
     /\ ~ret.raised
     /\ SourceEntry # NoEntry
     /\ SourceEntry.checksum = 0
     /\ ret.ts < SourceEntry.expires)
    => ret.result # PyNone

\* C13 amended: it is the get asking with checksum 0 that always passes the
\* test: it returns the unexpired entry it decides on whatever checksum the
\* entry was stored with; an entry stored with checksum 0 is refused to a get
\* asking with another checksum.
C13_ZeroChecksum ==
    (/\ ret.op = "get"
     /\ ~ret.raised
     /\ SourceEntry # NoEntry
     /\ ret.ts < SourceEntry.expires)
    => /\ ret.checksum = 0
          => ret.result \in Decode(SourceEntry.data, ret.json_data)
       /\ (SourceEntry.checksum = 0 /\ ret.checksum # 0)
          => ret.result = PyNone

\* C13 witness: a get asking with checksum 0 has returned an unexpired entry
\* stored with another checksum
C13_Witness ==
    /\ ret.op = "get"
    /\ ~ret.raised
    /\ ret.checksum = 0
    /\ SourceEntry # NoEntry
    /\ SourceEntry.checksum # 0
    /\ ret.ts < SourceEntry.expires
    /\ ret.result # PyNone

\* C11: in every interleaving of a sweep with set calls, a row the sweeper
\* deletes has, at the moment of the delete, an expires field earlier than the
\* sweep's timestamp.
C11_SweepDeletesExpiredOnly ==
    [][\A t \in Threads :
          (/\ th[t].op \in {"init", "cleanup"}
           /\ th[t].pc = "execute_sql"
           /\ th[t].query = "delete"
           /\ th'[t] # th[t]
           /\ th[t].endpoint \in DOMAIN files[th[t].conn.file].rows
           /\ th[t].endpoint \notin DOMAIN files'[th[t].conn.file].rows)
          => files[th[t].conn.file].rows[th[t].endpoint].expires
                < th[t].ts]_vars

\* thread t runs a sweep that is past the in-progress check
Scanning(t) ==
    th[t].op \in {"init", "cleanup"} /\ th[t].pc \notin {"idle", "do_cleanup"}

\* C16: at most one sweep is past the in-progress check, scanning or deleting
\* rows, at any time.
C16_OneSweepAtATime ==
    Cardinality({t \in Threads : Scanning(t)}) <= 1

\* C17: when a sweep that has set the in-progress marker returns and no other
\* sweep is running, the marker is cleared: also when it ended early.
C17_MarkerCleared ==
    (/\ ret.op \in {"init", "cleanup"}
     /\ ret.ran
     /\ \A t \in Threads : ~Scanning(t))
    => ~HasProperty(CleanBusyKey)

\* C18: when a sweep passes the in-progress check while no other sweep is
\* running, no sweep of another construction started to scan less than one
\* interval ago.
C18_OncePerInterval ==
    [][\A t \in Threads :
          (/\ th[t].pc = "do_cleanup"
           /\ th'[t].pc = "clean_mark"
           /\ \A u \in Threads : ~Scanning(u))
          => \A j \in Instances \ {th[t].self} :
                obj[j].scan >= 0
                => now - obj[j].scan >= AutoCleanInterval]_vars

\* C12: when several set() calls for one key were made on an instance and all
\* have returned, with their statements carried out, a get(k) started after
\* that on the running engine, before expiry, returns the value of the set()
\* that returned last.
C12_LastReturnedSetWins ==
    (/\ ret.op = "get"
     /\ ret.settled
     /\ ret.endpoint \in Keys
     /\ hist[ret.endpoint].done >= 2
     /\ hist[ret.endpoint].stored
     /\ hist[ret.endpoint].cs_in = ret.cs_in
     /\ hist[ret.endpoint].json_data = ret.json_data
     /\ ret.ts < hist[ret.endpoint].expires
     /\ ret.dbw # "fail"
     /\ ~obj[ret.self].exit)
    => (~ret.raised /\ ret.result = hist[ret.endpoint].data)

\* C14: when a get(k) on an engine with the property tier returns the value of
\* a valid row it has read, the property of k is a copy of that row: the same
\* expires, the same payload and the same checksum.
C14_PromotionCopiesRow ==
    (/\ ret.op = "get"
     /\ ~ret.raised
     /\ ret.result # PyNone
     /\ ret.dbRead # NoEntry
     /\ obj[ret.self].enable_mem_cache)
    => /\ HasProperty(ret.endpoint)
       /\ win[ret.endpoint].kind = "cache"
       /\ win[ret.endpoint].expires = ret.dbRead.expires
       /\ win[ret.endpoint].data = ret.dbRead.data
       /\ win[ret.endpoint].checksum = ret.dbRead.checksum

\* the _do_cleanup of ret was called right after another _do_cleanup of the
\* same instance had returned: no call began since, no set() was in flight,
\* and no time has passed since the first of the two read the clock
SecondRun ==
    /\ ret.op = "cleanup"
    /\ ret.first.at = now
    /\ ret.first.ops + 1 = ops
    /\ ret.settled

\* the second run has executed no DELETE, has not raised, and the rows of the
\* store are those it found
LeavesStoreAlone ==
    /\ ~ret.raised
    /\ ret.deleted = 0
    /\ StoreRows = ret.rows0

=============================================================================
